---------------------------- MODULE Spec2Model ----------------------------
(***************************************************************************)
(* Model of the Lyrics timeline of app/js/lyrics.js: an ordered sequence   *)
(* of words with optional timestamps, the monotonicity repair done by      *)
(* setTimeOfWord, and the two interpolation queries getIndexForTime and    *)
(* getApproximateTime.                                                     *)
(*                                                                         *)
(* JavaScript values are modelled as records [k, n, d]:                    *)
(*   k = "num"        the finite number n/d (d > 0, lowest terms)          *)
(*   k = "inf"        +Infinity (n = 1) or -Infinity (n = -1)              *)
(*   k = "nan"        NaN                                                  *)
(*   k = "null", "undefined", "string"   the non-numbers the code meets    *)
(* Arithmetic is exact rational arithmetic with the IEEE-754 rules for     *)
(* NaN, the infinities and division by zero; rounding of doubles is not    *)
(* modelled.  Every zero divisor in the code is a difference x - x, which  *)
(* is +0, so the sign of a quotient by zero is the sign of the dividend.   *)
(***************************************************************************)
EXTENDS Integers, Sequences, FiniteSets, TLC

(* ------------------------------ bounds -------------------------------- *)
\* longest timeline explored
MaxLen == 3
\* length of the media in seconds: the largest playback position, and the
\* duration once the metadata has arrived
MaxTime == 2

(* -------------------------- JavaScript values ------------------------- *)
Null == [k |-> "null", n |-> 0, d |-> 1]
Undefined == [k |-> "undefined", n |-> 0, d |-> 1]
NaN == [k |-> "nan", n |-> 0, d |-> 1]
PosInf == [k |-> "inf", n |-> 1, d |-> 1]
NegInf == [k |-> "inf", n |-> -1, d |-> 1]
AString == [k |-> "string", n |-> 0, d |-> 1]

Abs(x) == IF x < 0 THEN -x ELSE x

RECURSIVE GCD(_, _)
GCD(a, b) == IF b = 0 THEN a ELSE GCD(b, a % b)

\* the finite number n/d, d # 0, in lowest terms with a positive denominator
Rat(n, d) ==
  LET g == GCD(Abs(n), Abs(d))
      s == IF d < 0 THEN -1 ELSE 1
  IN  [k |-> "num", n |-> (s * n) \div g, d |-> Abs(d) \div g]

Num(n) == [k |-> "num", n |-> n, d |-> 1]

SignInf(s) == IF s > 0 THEN PosInf ELSE NegInf

Sgn(v) == IF v.n > 0 THEN 1 ELSE IF v.n < 0 THEN -1 ELSE 0

\* ToBoolean: null, undefined, NaN and 0 are falsy, every other number is truthy
Truthy(v) ==
  CASE v.k = "num" -> v.n # 0
    [] v.k = "inf" -> TRUE
    [] v.k = "string" -> TRUE
    [] OTHER -> FALSE

\* ToNumber on the values the code computes with
ToNumber(v) ==
  CASE v.k = "null" -> Num(0)
    [] v.k = "undefined" -> NaN
    [] v.k = "string" -> NaN
    [] OTHER -> v

\* a == b (loose equality): null and undefined equal each other and nothing
\* else, numbers compare by value, NaN equals nothing
LooseEq(a, b) ==
  CASE a.k \in {"null", "undefined"} -> b.k \in {"null", "undefined"}
    [] b.k \in {"null", "undefined"} -> FALSE
    [] a.k = "nan" \/ b.k = "nan" -> FALSE
    [] OTHER -> a = b

\* x < y on numbers after ToNumber; any comparison with NaN is false
NumLt(x, y) ==
  CASE x.k = "nan" \/ y.k = "nan" -> FALSE
    [] x.k = "inf" /\ y.k = "inf" -> x.n < y.n
    [] x.k = "inf" -> x.n < 0
    [] y.k = "inf" -> y.n > 0
    [] OTHER -> x.n * y.d < y.n * x.d

NumEq(x, y) == x.k # "nan" /\ y.k # "nan" /\ x = y

\* a <= b, a >= b, a < b as JavaScript evaluates them
Le(a, b) == LET x == ToNumber(a) y == ToNumber(b) IN NumLt(x, y) \/ NumEq(x, y)
Ge(a, b) == Le(b, a)
Lt(a, b) == NumLt(ToNumber(a), ToNumber(b))

Neg(v) ==
  CASE v.k = "num" -> [v EXCEPT !.n = -v.n]
    [] v.k = "inf" -> SignInf(-v.n)
    [] OTHER -> v

\* a + b
Add(a, b) ==
  LET x == ToNumber(a) y == ToNumber(b)
  IN  CASE x.k = "nan" \/ y.k = "nan" -> NaN
        [] x.k = "inf" /\ y.k = "inf" -> IF x.n = y.n THEN x ELSE NaN
        [] x.k = "inf" -> x
        [] y.k = "inf" -> y
        [] OTHER -> Rat(x.n * y.d + y.n * x.d, x.d * y.d)

\* a - b
Sub(a, b) == Add(a, Neg(ToNumber(b)))

\* a * b
Mul(a, b) ==
  LET x == ToNumber(a) y == ToNumber(b)
  IN  CASE x.k = "nan" \/ y.k = "nan" -> NaN
        [] x.k = "inf" \/ y.k = "inf" ->
             IF Sgn(x) * Sgn(y) = 0 THEN NaN ELSE SignInf(Sgn(x) * Sgn(y))
        [] OTHER -> Rat(x.n * y.n, x.d * y.d)

\* a / b
Div(a, b) ==
  LET x == ToNumber(a) y == ToNumber(b)
  IN  CASE x.k = "nan" \/ y.k = "nan" -> NaN
        [] x.k = "inf" /\ y.k = "inf" -> NaN
        [] x.k = "inf" -> IF Sgn(y) < 0 THEN SignInf(-x.n) ELSE x
        [] y.k = "inf" -> Num(0)
        [] y.n = 0 -> IF x.n = 0 THEN NaN ELSE SignInf(x.n)
        [] OTHER -> Rat(x.n * y.d, x.d * y.n)

\* parseInt(v) of a number: the integer part of its decimal text, NaN for
\* "NaN" and "Infinity".  (A magnitude below 1e-6 or above 1e21 prints in
\* exponent form and parses differently; the bounds keep every quotient
\* far from both.)
parseInt(v) ==
  CASE v.k = "num" -> Num(IF v.n >= 0 THEN v.n \div v.d ELSE -((-v.n) \div v.d))
    [] OTHER -> NaN

IsInteger(v) == v.k = "num" /\ v.d = 1

(* ---------------------------- the timeline ---------------------------- *)
\* A timeline is a function from the indices 0..length-1 to the word's time.
Length(words) == Cardinality(DOMAIN words)

\* this[index] is a word (not undefined)
HasWord(words, index) == IsInteger(index) /\ index.n \in DOMAIN words


\* "timeChanged" notification (index, newTime)
Notification(index, time) == <<index, time>>

\* a timeline during a setTimeOfWord call: the words and the notifications
\* emitted so far, in emission order
Emit(st, index, time) ==
  [st EXCEPT !.emitted = Append(@, Notification(index, time))]

\* this[i].time = null; this.emit('timeChanged', i, null)
ClearWord(st, i) ==
  Emit([st EXCEPT !.words = [@ EXCEPT ![i] = Null]], i, Null)

\* variant: the notification for index is emitted unconditionally
HasChangedAlways(old, time) == TRUE

\* variant: the comparison is made after the assignment
HasChangedAfterAssignment(old, time) == ~LooseEq(time, time)

\* var hasChanged = this[index].time != time
HasChanged(old, time) == ~LooseEq(old, time)

\* variant: the early return for a deleted time is missing
IsDeleteNever(time) == FALSE

\* if (time == null || time == undefined) return
IsDelete(time) == LooseEq(time, Null) \/ LooseEq(time, Undefined)

\* this[i].time && this[i].time <= time
InvalidLater(t, time) == Truthy(t) /\ Le(t, time)

\* this[i].time && this[i].time >= time
InvalidEarlier(t, time) == Truthy(t) /\ Ge(t, time)

\* for (var i=index+1; i<this.length; i++) ...
RECURSIVE ForwardPass(_, _, _)
ForwardPass(st, time, i) ==
  IF i >= Length(st.words) THEN st
  ELSE ForwardPass(IF InvalidLater(st.words[i], time) THEN ClearWord(st, i) ELSE st,
                   time, i + 1)

\* for (var i=index-1; i>=0; i--) ...
RECURSIVE BackwardPass(_, _, _)
BackwardPass(st, time, i) ==
  IF i < 0 THEN st
  ELSE BackwardPass(IF InvalidEarlier(st.words[i], time) THEN ClearWord(st, i) ELSE st,
                    time, i - 1)

\* variant: the earlier words are repaired before the later ones
SetTimeOfExistingWordBackwardFirst(words, index, time) ==
  LET assigned ==
        [error |-> "none",
         words |-> [words EXCEPT ![index] = time],
         emitted |-> IF HasChanged(words[index], time)
                     THEN <<Notification(index, time)>> ELSE <<>>]
  IN  IF IsDelete(time) THEN assigned
      ELSE ForwardPass(BackwardPass(assigned, time, index - 1), time, index + 1)

\* setTimeOfWord on a word that exists: assignment, notification, repair
SetTimeOfExistingWord(words, index, time) ==
  LET assigned ==
        [error |-> "none",
         words |-> [words EXCEPT ![index] = time],
         emitted |-> IF HasChanged(words[index], time)
                     THEN <<Notification(index, time)>> ELSE <<>>]
  IN  IF IsDelete(time) THEN assigned
      ELSE BackwardPass(ForwardPass(assigned, time, index + 1), time, index - 1)

\* variant: a missing word is skipped silently (if (!this[index]) return)
setTimeOfWordSkipsMissing(words, index, time) ==
  IF ~HasWord(words, Num(index))
  THEN [error |-> "none", words |-> words, emitted |-> <<>>]
  ELSE SetTimeOfExistingWord(words, index, time)

\* Lyrics.prototype.setTimeOfWord(index, time).  Reading this[index].time of
\* a missing word throws a TypeError before anything is written or emitted.
setTimeOfWord(words, index, time) ==
  IF ~HasWord(words, Num(index))
  THEN [error |-> "TypeError", words |-> words, emitted |-> <<>>]
  ELSE SetTimeOfExistingWord(words, index, time)

\* assert(exp, message) throws when exp is falsy
assertThrows(exp) == ~exp

\* variant: the span is measured from index 0 instead of the anchor
InterpolateIndexFromZero(earlierIndex, relPosBetweenBounds, i) ==
  Add(Num(earlierIndex), Mul(relPosBetweenBounds, Num(i)))

\* index = earlierIndex + relPosBetweenBounds * (i - earlierIndex)
InterpolateIndex(earlierIndex, relPosBetweenBounds, i) ==
  Add(Num(earlierIndex), Mul(relPosBetweenBounds, Num(i - earlierIndex)))

\* the body of the loop of getIndexForTime from position i on, with the
\* latest timed word seen so far as anchor; falling off the end of the loop
\* returns undefined
RECURSIVE IndexSearch(_, _, _, _, _, _)
IndexSearch(words, dur, timestamp, i, earlierIndex, earlierTimestamp) ==
  IF i >= Length(words) THEN Undefined
  ELSE LET word == words[i]
           isLastWord == (i = Length(words) - 1)
           timeOfThisWord == IF ~Truthy(word) /\ isLastWord THEN dur ELSE word
       IN  IF isLastWord \/ (Truthy(timeOfThisWord) /\ Ge(timeOfThisWord, timestamp))
           THEN LET relPosBetweenBounds ==
                      Div(Sub(timestamp, earlierTimestamp),
                          Sub(timeOfThisWord, earlierTimestamp))
                IN  parseInt(InterpolateIndex(earlierIndex, relPosBetweenBounds, i))
           ELSE IF Truthy(word)
                THEN IndexSearch(words, dur, timestamp, i + 1, i, word)
                ELSE IndexSearch(words, dur, timestamp, i + 1, earlierIndex,
                                 earlierTimestamp)

\* variant: the duration is not asserted
getIndexForTimeUnchecked(words, dur, timestamp) ==
  [error |-> "none", value |-> IndexSearch(words, dur, timestamp, 0, 0, Num(0))]

\* Lyrics.prototype.getIndexForTime(timestamp)
getIndexForTime(words, dur, timestamp) ==
  IF assertThrows(Truthy(dur))
  THEN [error |-> "AssertionError", value |-> Undefined]
  ELSE [error |-> "none",
        value |-> IndexSearch(words, dur, timestamp, 0, 0, Num(0))]

\* for (var i=index-1; i>=0; i--) if (this[i].time) {...; break}
\* starting at the number i; this[i] of a missing word throws
RECURSIVE EarlierAnchor(_, _)
EarlierAnchor(words, i) ==
  IF ~Ge(i, Num(0)) THEN [error |-> "none", index |-> Num(0), timestamp |-> Num(0)]
  ELSE IF ~HasWord(words, i)
       THEN [error |-> "TypeError", index |-> Num(0), timestamp |-> Num(0)]
       ELSE IF Truthy(words[i.n])
            THEN [error |-> "none", index |-> i, timestamp |-> words[i.n]]
            ELSE EarlierAnchor(words, Sub(i, Num(1)))

\* for (var i=index+1; i<this.length; i++) if (this[i].time) {...; break}
RECURSIVE LaterAnchor(_, _, _)
LaterAnchor(words, dur, i) ==
  IF ~Lt(i, Num(Length(words)))
  THEN [error |-> "none", index |-> Num(Length(words) - 1), timestamp |-> dur]
  ELSE IF ~HasWord(words, i)
       THEN [error |-> "TypeError", index |-> Num(0), timestamp |-> Num(0)]
       ELSE IF Truthy(words[i.n])
            THEN [error |-> "none", index |-> i, timestamp |-> words[i.n]]
            ELSE LaterAnchor(words, dur, Add(i, Num(1)))

\* index.constructor === Number
IsNumber(index) == index.k \in {"num", "inf", "nan"}

\* Lyrics.prototype.getApproximateTime(index)
getApproximateTime(words, dur, index) ==
  IF index.k \in {"null", "undefined"}
  THEN [error |-> "TypeError", value |-> Undefined]
  ELSE IF assertThrows(IsNumber(index))
  THEN [error |-> "AssertionError", value |-> Undefined]
  ELSE LET earlier == EarlierAnchor(words, Sub(index, Num(1)))
       IN  IF earlier.error # "none"
           THEN [error |-> earlier.error, value |-> Undefined]
           ELSE LET later == LaterAnchor(words, dur, Add(index, Num(1)))
                IN  IF later.error # "none"
                    THEN [error |-> later.error, value |-> Undefined]
                    ELSE LET relPos == Div(Sub(index, earlier.index),
                                           Sub(later.index, earlier.index))
                         IN  [error |-> "none",
                              value |-> Add(earlier.timestamp,
                                            Mul(relPos, Sub(later.timestamp,
                                                            earlier.timestamp)))]

\* the 'timeChanged' listener: the receiver's copy of the times after it has
\* handled the notifications in the order they were emitted
RECURSIVE ApplyNotifications(_, _)
ApplyNotifications(copy, emitted) ==
  IF emitted = <<>> THEN copy
  ELSE ApplyNotifications([copy EXCEPT ![Head(emitted)[1]] = Head(emitted)[2]],
                          Tail(emitted))

\* Lyrics.fromText: every word of the text starts with time = duration
fromText(n, duration) == [i \in 0 .. n - 1 |-> duration]

(* ------------------------------- texts -------------------------------- *)
\* A text is a sequence of characters, each a string of one character.
DecimalDigits == <<"0", "1", "2", "3", "4", "5", "6", "7", "8", "9">>
DigitChar(d) == DecimalDigits[d + 1]
IsDigit(c) == \E d \in 0 .. 9 : c = DigitChar(d)
DigitValue(c) == CHOOSE d \in 0 .. 9 : c = DigitChar(d)

\* String(n) of a non-negative integer
RECURSIVE NatToString(_)
NatToString(n) ==
  IF n < 10 THEN <<DigitChar(n)>>
  ELSE NatToString(n \div 10) \o <<DigitChar(n % 10)>>

\* String(v) of a value that Math.floor returned
NumberToString(v) ==
  CASE v.k = "nan" -> <<"N", "a", "N">>
    [] v.k = "inf" -> (IF v.n < 0 THEN <<"-">> ELSE <<>>)
                        \o <<"I", "n", "f", "i", "n", "i", "t", "y">>
    [] v.k = "num" /\ v.n < 0 -> <<"-">> \o NatToString(-v.n)
    [] OTHER -> NatToString(v.n)

\* Math.floor(v)
Floor(v) ==
  LET x == ToNumber(v) IN IF x.k = "num" THEN Num(x.n \div x.d) ELSE x

\* a % b: the remainder has the sign of the dividend
Remainder(a, b) ==
  LET x == ToNumber(a) y == ToNumber(b)
  IN  CASE x.k # "num" \/ y.k = "nan" -> NaN
        [] y.k = "inf" -> x
        [] y.n = 0 -> NaN
        [] OTHER ->
             LET q == Div(x, y)
                 t == IF q.n >= 0 THEN Num(q.n \div q.d)
                      ELSE Num(-((-q.n) \div q.d))
             IN  Sub(x, Mul(y, t))

\* isNaN(x) ? '--' : (x >= 10) ? x : '0' + x
TwoDigits(x) ==
  IF x.k = "nan" THEN <<"-", "-">>
  ELSE IF Ge(x, Num(10)) THEN NumberToString(x)
  ELSE <<"0">> \o NumberToString(x)

\* isNaN(ms) ? '--' : (ms >= 100) ? ms : (ms > 10) ? '0' + ms : '00' + ms
ThreeDigits(ms) ==
  IF ms.k = "nan" THEN <<"-", "-">>
  ELSE IF Ge(ms, Num(100)) THEN NumberToString(ms)
  ELSE IF Lt(Num(10), ms) THEN <<"0">> \o NumberToString(ms)
  ELSE <<"0", "0">> \o NumberToString(ms)

\* Lyrics.toTimer(time, withHours)
toTimer(time, withHours) ==
  LET h == TwoDigits(Floor(Div(time, Num(3600))))
      m == TwoDigits(IF withHours
                     THEN Floor(Remainder(Div(time, Num(60)), Num(60)))
                     ELSE Floor(Div(time, Num(60))))
      s == TwoDigits(Floor(Remainder(time, Num(60))))
      ms == ThreeDigits(Floor(Mul(Sub(time, Floor(time)), Num(1000))))
  IN  IF withHours THEN h \o <<":">> \o m \o <<":">> \o s
      ELSE m \o <<":">> \o s \o <<".">> \o ms

\* the longest prefix of digits of a text
RECURSIVE DigitPrefix(_)
DigitPrefix(s) ==
  IF s # <<>> /\ IsDigit(Head(s)) THEN <<Head(s)>> \o DigitPrefix(Tail(s))
  ELSE <<>>

\* the value of a text of digits
RECURSIVE DigitsValue(_)
DigitsValue(s) ==
  IF s = <<>> THEN 0
  ELSE 10 * DigitsValue(SubSeq(s, 1, Len(s) - 1)) + DigitValue(s[Len(s)])

RECURSIVE Power10(_)
Power10(n) == IF n = 0 THEN 1 ELSE 10 * Power10(n - 1)

\* a text without its leading white space
RECURSIVE TrimStart(_)
TrimStart(s) ==
  IF s # <<>> /\ Head(s) \in {" ", "\n"} THEN TrimStart(Tail(s)) ELSE s

\* parseInt(text): the leading digits of the text, NaN when there is none
parseIntOfText(text) ==
  LET s == TrimStart(text)
      neg == s # <<>> /\ Head(s) = "-"
      u == IF s # <<>> /\ Head(s) \in {"-", "+"} THEN Tail(s) ELSE s
      ds == DigitPrefix(u)
  IN  IF ds = <<>> THEN NaN
      ELSE Num(IF neg THEN -DigitsValue(ds) ELSE DigitsValue(ds))

\* parseFloat(text): the longest leading decimal literal (digits, then
\* optionally a point and digits), NaN when there is no digit
parseFloat(text) ==
  LET s == TrimStart(text)
      neg == s # <<>> /\ Head(s) = "-"
      u == IF s # <<>> /\ Head(s) \in {"-", "+"} THEN Tail(s) ELSE s
      ip == DigitPrefix(u)
      r == SubSeq(u, Len(ip) + 1, Len(u))
      fp == IF r # <<>> /\ Head(r) = "." THEN DigitPrefix(Tail(r)) ELSE <<>>
      v == Rat(DigitsValue(ip) * Power10(Len(fp)) + DigitsValue(fp),
               Power10(Len(fp)))
  IN  IF ip = <<>> /\ fp = <<>> THEN NaN
      ELSE IF neg THEN Neg(v) ELSE v

\* the line-break marker "<br>"
LineBreakMarker == <<"<", "b", "r", ">">>

\* the ideographic space U+3000, one character
IdeographicSpace == "u3000"

\* the characters \s matches, among those of the texts explored
WhiteSpace == {" ", "\n", IdeographicSpace}

\* the texts of a sequence, one after the other
RECURSIVE Concat(_)
Concat(texts) ==
  IF Len(texts) = 0 THEN <<>>
  ELSE IF Len(texts) = 1 THEN texts[1]
  ELSE Concat(SubSeq(texts, 1, Len(texts) \div 2))
         \o Concat(SubSeq(texts, Len(texts) \div 2 + 1, Len(texts)))

\* text.replace(/ +/g, " "): of a run of spaces the last one stays
CollapseSpaces(s) ==
  Concat([i \in 1 .. Len(s) |->
            IF s[i] = " " /\ i < Len(s) /\ s[i + 1] = " " THEN <<>> ELSE <<s[i]>>])

\* text.replace(/\u3000/g, "")
DeleteIdeographic(s) == SelectSeq(s, LAMBDA c : c # IdeographicSpace)

\* the number of spaces a text starts with
RECURSIVE SpaceRun(_)
SpaceRun(s) == IF s # <<>> /\ Head(s) = " " THEN 1 + SpaceRun(Tail(s)) ELSE 0

\* the character at position i belongs to a run of spaces that a newline
\* follows
BeforeNewline(s, i, k) == s[i] = " " /\ i + k <= Len(s) /\ s[i + k] = "\n"

\* text.replace(/ +\n/g, "\n")
StripSpacesBeforeNewline(s) ==
  Concat([i \in 1 .. Len(s) |->
            IF BeforeNewline(s, i, SpaceRun(SubSeq(s, i, Len(s)))) THEN <<>>
            ELSE <<s[i]>>])

RECURSIVE TrimEnd(_)
TrimEnd(s) ==
  IF s # <<>> /\ s[Len(s)] \in WhiteSpace
  THEN TrimEnd(SubSeq(s, 1, Len(s) - 1)) ELSE s

\* text.trim()
Trim(s) ==
  LET RECURSIVE Start(_)
      Start(t) == IF t # <<>> /\ Head(t) \in WhiteSpace THEN Start(Tail(t)) ELSE t
  IN  TrimEnd(Start(s))

\* text.replace(/(?:\r\n|\r|\n)/g, '<br>\n')
MarkLineBreaks(s) ==
  Concat([i \in 1 .. Len(s) |->
            IF s[i] = "\n" THEN LineBreakMarker \o <<"\n">> ELSE <<s[i]>>])

\* the normalisation both parsers start with
NormalizeText(text) ==
  MarkLineBreaks(Trim(StripSpacesBeforeNewline(DeleteIdeographic(CollapseSpaces(text)))))

\* the text s starts with the text t
StartsWith(s, t) == Len(s) >= Len(t) /\ SubSeq(s, 1, Len(t)) = t

\* the longest prefix of a text without the given characters
RECURSIVE PrefixWithout(_, _)
PrefixWithout(s, stops) ==
  IF s = <<>> \/ Head(s) \in stops THEN <<>>
  ELSE <<Head(s)>> \o PrefixWithout(Tail(s), stops)

\* a text without the white space it starts with
RECURSIVE SkipWhiteSpace(_)
SkipWhiteSpace(s) ==
  IF s # <<>> /\ Head(s) \in WhiteSpace THEN SkipWhiteSpace(Tail(s)) ELSE s

\* text.split(/\s+/g): the pieces between the runs of white space, an empty
\* piece before a leading run and after a trailing one
RECURSIVE SplitOnWhiteSpace(_)
SplitOnWhiteSpace(s) ==
  LET item == PrefixWithout(s, WhiteSpace)
      rest == SubSeq(s, Len(item) + 1, Len(s))
  IN  IF rest = <<>> THEN <<item>>
      ELSE <<item>> \o SplitOnWhiteSpace(SkipWhiteSpace(rest))

\* variant: only empty items are dropped (if (item))
IsWordItemOrMarker(item) == item # <<>>

\* if (item && item != "<br>")
IsWordItem(item) == item # <<>> /\ item # LineBreakMarker

\* Lyrics.fromText(text, duration): the words { text: item.trim(), time:
\* duration } of the items kept, in order
fromTextWords(text, duration) ==
  LET items == SplitOnWhiteSpace(NormalizeText(text))
      kept == SelectSeq(items, IsWordItem)
  IN  [i \in 1 .. Len(kept) |-> [text |-> Trim(kept[i]), time |-> duration]]

(* ------------------------------ LRC parser ---------------------------- *)
\* the first position >= from of a character of the set in the text, 0 if none
FirstIndexOf(s, chars, from) ==
  LET found == {p \in from .. Len(s) : s[p] \in chars}
  IN  IF found = {} THEN 0 ELSE CHOOSE p \in found : \A q \in found : p <= q

\* the last position of the character in the text, 0 if none
LastIndexOf(s, c) ==
  LET found == {p \in 1 .. Len(s) : s[p] = c}
  IN  IF found = {} THEN 0 ELSE CHOOSE p \in found : \A q \in found : p >= q

\* the text from position p to its end
From(s, p) == SubSeq(s, p, Len(s))

\* allText.split(/\r\n|\n/)
RECURSIVE SplitLines(_)
SplitLines(s) ==
  LET n == FirstIndexOf(s, {"\n"}, 1)
  IN  IF n = 0 THEN <<s>>
      ELSE <<SubSeq(s, 1, n - 1)>> \o SplitLines(From(s, n + 1))

\* allTextLines.toString(): the lines joined by commas
RECURSIVE JoinLines(_)
JoinLines(lines) ==
  IF Len(lines) = 0 THEN <<>>
  ELSE IF Len(lines) = 1 THEN lines[1]
  ELSE lines[1] \o <<",">> \o JoinLines(Tail(lines))

\* the position of the ':' of a tag opened at position p by the character
\* open, (\d*)(:) matched right after it; 0 if the text does not continue so
ColonOfTag(s, p, open) ==
  IF p >= 1 /\ p <= Len(s) /\ s[p] = open
  THEN LET c == p + 1 + Len(DigitPrefix(From(s, p + 1)))
       IN  IF c <= Len(s) /\ s[c] = ":" THEN c ELSE 0
  ELSE 0

\* the smallest element of a non-empty set of positions, 0 for the empty set
MinOrZero(S) == IF S = {} THEN 0 ELSE CHOOSE p \in S : \A q \in S : p <= q

\* (parseInt(minutes) * 60) + parseFloat(seconds)
TagTime(minutes, seconds) ==
  Add(Mul(parseIntOfText(minutes), Num(60)), parseFloat(seconds))

\* Number(text) of the text of a decimal number: 0 for the empty text, NaN
\* for a text that is not a number
StringToNumber(text) ==
  LET s == Trim(text)
      u == IF s # <<>> /\ Head(s) \in {"-", "+"} THEN Tail(s) ELSE s
      ip == DigitPrefix(u)
      r == From(u, Len(ip) + 1)
      fp == IF r # <<>> /\ Head(r) = "." THEN DigitPrefix(Tail(r)) ELSE <<>>
      whole == Len(ip) + (IF r # <<>> /\ Head(r) = "." THEN 1 + Len(fp) ELSE 0)
  IN  IF s = <<>> THEN Num(0)
      ELSE IF whole # Len(u) \/ (ip = <<>> /\ fp = <<>>) THEN NaN
      ELSE parseFloat(s)

\* "[offset:"
OffsetTag == <<"[", "o", "f", "f", "s", "e", "t", ":">>

\* allText.match(/(?:\[offset:)(.*)(?:])/i): the text between the first
\* "[offset:" that has a "]" after it on its line and the last such "]";
\* <<"none">> when there is no match
OffsetMatch(allText) ==
  LET LineEnd(p) ==
        LET n == FirstIndexOf(allText, {"\n"}, p)
        IN  IF n = 0 THEN Len(allText) ELSE n - 1
      Close(p) ==
        LET found == {q \in p + Len(OffsetTag) .. LineEnd(p) : allText[q] = "]"}
        IN  IF found = {} THEN 0 ELSE CHOOSE q \in found : \A r \in found : q >= r
      p == MinOrZero({q \in 1 .. Len(allText) :
                        StartsWith(From(allText, q), OffsetTag) /\ Close(q) # 0})
  IN  IF p = 0 THEN <<"none">>
      ELSE <<"match", SubSeq(allText, p + Len(OffsetTag), Close(p) - 1)>>

\* var hasOffset = (allText.match(...) != null)
hasOffset(allText) == OffsetMatch(allText)[1] = "match"

\* var offset = 0; if (hasOffset) offset = matches[1] / 1000
offset(allText) ==
  IF hasOffset(allText)
  THEN Div(StringToNumber(OffsetMatch(allText)[2]), Num(1000))
  ELSE Num(0)

\* isElrc = allTextLines.toString().match(/(?:\<)(\d*)(?::)(\S*?)(?:\>)/i) != null
isElrc(allTextLines) ==
  LET s == JoinLines(allTextLines)
  IN  \E p \in 1 .. Len(s) :
        LET c == ColonOfTag(s, p, "<")
        IN  /\ c # 0
            /\ \E r \in c + 1 .. Len(s) :
                 /\ s[r] = ">"
                 /\ \A j \in c + 1 .. r - 1 : s[j] \notin WhiteSpace

\* allTextLines[i].match(/^(\[)(\d*)(:)(.*)(\])(.*)/i): line[2], line[4]
\* (up to the last "]" of the line) and line[6]
LineMatch(line) ==
  LET c == ColonOfTag(line, 1, "[")
      e == LastIndexOf(line, "]")
  IN  IF c # 0 /\ e > c
      THEN [matched |-> TRUE,
            minutes |-> SubSeq(line, 2, c - 1),
            seconds |-> SubSeq(line, c + 1, e - 1),
            rest |-> From(line, e + 1)]
      ELSE [matched |-> FALSE, minutes |-> <<>>, seconds |-> <<>>, rest |-> <<>>]

\* line[6].match(/(?: )(.*?)(?: |$)/i): from the first space to the next
\* one, or to the end of the line; <<"none">> when the line has no space
FirstWordMatch(rest) ==
  LET p == FirstIndexOf(rest, {" "}, 1)
      q == FirstIndexOf(rest, {" "}, p + 1)
  IN  IF p = 0 THEN <<"none">>
      ELSE <<"match", SubSeq(rest, p, IF q = 0 THEN Len(rest) ELSE q)>>

\* regex.exec(line[6]) of /(?:\<)(\d*)(?::)(.*?)(?:\>) (.*?)(?: |\n|$)/g
\* from position from: the leftmost tag "<digits:" whose text runs to the
\* first "> " after it, the word after that space, and the position after
\* the match
TagMatch(s, from) ==
  LET Close(p) ==
        LET c == ColonOfTag(s, p, "<")
        IN  IF c = 0 THEN 0
            ELSE MinOrZero({r \in c + 1 .. Len(s) - 1 :
                              s[r] = ">" /\ s[r + 1] = " "})
      p == MinOrZero({q \in from .. Len(s) : Close(q) # 0})
  IN  IF p = 0 THEN [found |-> FALSE]
      ELSE LET c == ColonOfTag(s, p, "<")
               r == Close(p)
               word == PrefixWithout(From(s, r + 2), {" ", "\n"})
               stop == r + 2 + Len(word)
           IN  [found |-> TRUE,
                minutes |-> SubSeq(s, p + 1, c - 1),
                seconds |-> SubSeq(s, c + 1, r - 1),
                word |-> word,
                next |-> IF stop <= Len(s) THEN stop + 1 ELSE stop]

\* for (x = 1; matches = regex.exec(line[6]); x++): the times tim[i][x] and
\* the words lyrics[i][x] of the inline tags, in order
RECURSIVE TagMatches(_, _)
TagMatches(s, from) ==
  LET m == TagMatch(s, from)
  IN  IF ~m.found THEN <<>>
      ELSE <<[time |-> TagTime(m.minutes, m.seconds), word |-> m.word]>>
             \o TagMatches(s, m.next)

\* line[6].match(/(?:\<)(\d*)(?::)(\S*?)(?:\>\n|\>$)/i): the leftmost tag
\* "<digits:" followed by no white space up to a ">" that ends the line
TrailingTagMatch(s) ==
  LET Ends(p) ==
        LET c == ColonOfTag(s, p, "<")
        IN  /\ c # 0 /\ c < Len(s) /\ s[Len(s)] = ">"
            /\ \A j \in c + 1 .. Len(s) : s[j] \notin WhiteSpace
      p == MinOrZero({q \in 1 .. Len(s) : Ends(q)})
  IN  IF p = 0 THEN <<"none">>
      ELSE LET c == ColonOfTag(s, p, "<")
           IN  <<"match", SubSeq(s, p + 1, c - 1), SubSeq(s, c + 1, Len(s) - 1)>>

\* the body of next() for a line of an enhanced file that has the
\* timestamp prefix: tim[i] and lyrics[i]; tmp[0] of a null match throws
EnhancedEntry(m, tmp, tags, last) ==
  IF tmp[1] = "none"
  THEN [error |-> "TypeError", tim |-> <<>>, lyrics |-> <<>>]
  ELSE [error |-> "none",
        tim |-> <<TagTime(m.minutes, m.seconds)>>
                  \o [x \in 1 .. Len(tags) |-> tags[x].time]
                  \o (IF last[1] = "match"
                      THEN <<TagTime(last[2], last[3])>> ELSE <<>>),
        lyrics |-> <<Trim(tmp[2])>> \o [x \in 1 .. Len(tags) |-> tags[x].word]]

\* the three matches next() makes on the text of an enhanced line: the
\* first word, the tagged words, the closing tag
EnhancedLine(m) ==
  EnhancedEntry(m, FirstWordMatch(m.rest), TagMatches(m.rest, 1),
                TrailingTagMatch(m.rest))

\* the body of next() for a line of a file that is not enhanced
PlainLine(m) ==
  [error |-> "none", tim |-> TagTime(m.minutes, m.seconds), lyrics |-> m.rest]

\* the entry of a line put before the entries of the lines after it; a
\* line that throws ends the call
WithEntry(entry, others) ==
  IF entry.error # "none" THEN [error |-> entry.error, entries |-> <<>>]
  ELSE IF others.error # "none" THEN others
  ELSE [error |-> "none", entries |-> <<entry>> \o others.entries]

\* one call of next(): a line without the timestamp prefix leaves tim[i]
\* and lyrics[i] undefined
LineEntries(m, enhanced, others) ==
  IF ~m.matched THEN others
  ELSE WithEntry(IF enhanced THEN EnhancedLine(m) ELSE PlainLine(m), others)

\* next(), then tim.filter(defined) and lyrics.filter(defined): the entries
\* of the lines that have the timestamp prefix, in order.  The first line
\* that throws ends the call.
RECURSIVE next(_, _)
next(allTextLines, enhanced) ==
  IF allTextLines = <<>> THEN [error |-> "none", entries |-> <<>>]
  ELSE LineEntries(LineMatch(Head(allTextLines)), enhanced,
                   next(Tail(allTextLines), enhanced))

\* element index of a JavaScript array held as a sequence; undefined past its end
At(array, index) == IF index < Len(array) THEN array[index + 1] ELSE Undefined

\* $.map(items, function(item, index) { if (item && item != "<br>") return
\* {text: item.trim(), time: times[index] + offset}; }): the words of the
\* items kept (index counts every item, from 0)
RECURSIVE MapWords(_, _, _, _)
MapWords(items, index, times, off) ==
  IF index >= Len(items) THEN <<>>
  ELSE (IF IsWordItem(items[index + 1])
        THEN <<[text |-> Trim(items[index + 1]),
                time |-> Add(At(times, index), off)]>>
        ELSE <<>>)
       \o MapWords(items, index + 1, times, off)

\* the loops over lyrics of processLyrics, from entry i on: the words of
\* every line, enhanced (time: tim[i][index] + offset) or not
\* (time: tim[index] + offset)
RECURSIVE Splitted(_, _, _, _, _)
Splitted(entries, tim, enhanced, off, i) ==
  IF i > Len(entries) THEN <<>>
  ELSE (IF enhanced
        THEN MapWords(entries[i].lyrics, 0, entries[i].tim, off)
        ELSE MapWords(SplitOnWhiteSpace(entries[i].lyrics), 0, tim, off))
       \o Splitted(entries, tim, enhanced, off, i + 1)

\* tim after next() and tim.filter(defined)
TimesOfEntries(entries) == [i \in 1 .. Len(entries) |-> entries[i].tim]

\* the second half of processLyrics: the words of the entries next() left
WordsOfEntries(parsed, enhanced, off) ==
  IF parsed.error # "none" THEN [error |-> parsed.error, words |-> <<>>]
  ELSE [error |-> "none",
        words |-> Splitted(parsed.entries, TimesOfEntries(parsed.entries),
                           enhanced, off, 1)]

\* processLyrics(allText): the words of the file, or the error thrown
processLyrics(allText) ==
  WordsOfEntries(next(SplitLines(allText), isElrc(SplitLines(allText))),
                 isElrc(SplitLines(allText)), offset(allText))

\* Lyrics.fromLRC(text, duration): the words pushed onto the new timeline,
\* or the error thrown
fromLRC(text) == processLyrics(NormalizeText(text))

(* ----------------------------- ELRC writer ---------------------------- *)
\* text.includes(part)
Includes(text, part) ==
  \E p \in 1 .. Len(text) - Len(part) + 1 : StartsWith(From(text, p), part)

\* text.replace(part, ""): the text without the first occurrence of part
ReplaceFirst(text, part) ==
  LET p == MinOrZero({q \in 1 .. Len(text) - Len(part) + 1 :
                        StartsWith(From(text, q), part)})
  IN  IF p = 0 THEN text
      ELSE SubSeq(text, 1, p - 1) \o From(text, p + Len(part))

\* word.time || 0
TimeOrZero(time) == IF Truthy(time) THEN time ELSE Num(0)

\* Lyrics.prototype.toELRC, from word i on (words[i] is this[i - 1])
RECURSIVE WriteWords(_, _, _, _)
WriteWords(words, i, isNewLine, isFirstWord) ==
  IF i > Len(words) THEN <<>>
  ELSE LET word == words[i]
           tmpWord == IF Includes(word.text, LineBreakMarker)
                      THEN ReplaceFirst(word.text, LineBreakMarker)
                      ELSE word.text
           tag == IF isNewLine \/ isFirstWord
                  THEN <<"\n", "[">> \o toTimer(TimeOrZero(word.time), FALSE) \o <<"]">>
                  ELSE IF Truthy(word.time)
                  THEN <<" ", "<">> \o toTimer(word.time, FALSE) \o <<">">>
                  ELSE <<>>
       IN  tag \o <<" ">> \o tmpWord
             \o WriteWords(words, i + 1,
                           Includes(word.text, LineBreakMarker) /\ Truthy(word.time),
                           FALSE)

toELRC(words) == WriteWords(words, 1, FALSE, TRUE)

(* ------------------------------- state -------------------------------- *)
VARIABLES
  lyrics,    \* the timeline: index -> time of the word
  duration,  \* lyrics.duration
  view,      \* the listener's copy of the times
  op,        \* the call that produced this state, its arguments and outcome
  prev,      \* the call before it, kept when the call that produced this
             \* state is a setTimeOfWord with the same index and time
  keyboardCursorIndex,  \* lyricsBox.keyboardCursorIndex
  media      \* the media element: readyState, paused, currentTime, duration

vars == <<lyrics, duration, view, op, prev, keyboardCursorIndex, media>>

\* a new LyricsBox without lyrics: no cursor yet; the media element before
\* any media is loaded: HAVE_NOTHING, paused, at position 0, of duration NaN
NoBox ==
  /\ keyboardCursorIndex = Undefined
  /\ media = [readyState |-> 0, paused |-> TRUE, currentTime |-> Num(0),
              duration |-> NaN]

\* media.currentTime, or null from the Del key
Times == {Null} \cup {Num(t) : t \in 0 .. MaxTime}
\* media.duration of the loaded media
MediaDuration == Num(MaxTime)

\* lyrics.duration: not given to the constructor, or the media's duration
Durations == {Undefined, MediaDuration}

NoCall ==
  [name |-> "new", index |-> Null, time |-> Null, before |-> <<>>,
   emitted |-> <<>>, error |-> "none", result |-> Undefined]

\* what is remembered of the call o when the next call is setTimeOfWord(index, time)
Summary(o, index, time) ==
  IF o.name = "setTimeOfWord" /\ o.index = Num(index) /\ o.time = time
  THEN o ELSE NoCall

\* new Lyrics(duration) filled with untimed words (as from a JSON snapshot
\* without times)
Init ==
  /\ \E n \in 0 .. MaxLen : lyrics = [i \in 0 .. n - 1 |-> Null]
  /\ duration \in Durations
  /\ view = lyrics
  /\ op = NoCall
  /\ prev = NoCall
  /\ NoBox

\* lyrics.setTimeOfWord(index, time), its notifications delivered to the
\* listener while the call runs
CallSetTimeOfWord ==
  \E index \in -1 .. MaxLen, time \in Times :
    LET r == setTimeOfWord(lyrics, index, time)
    IN  /\ lyrics' = r.words
        /\ view' = ApplyNotifications(view, r.emitted)
        /\ op' = [name |-> "setTimeOfWord", index |-> Num(index), time |-> time,
                  before |-> lyrics, emitted |-> r.emitted, error |-> r.error,
                  result |-> Undefined]
        /\ prev' = Summary(op, index, time)
        /\ UNCHANGED duration
        /\ UNCHANGED <<keyboardCursorIndex, media>>

\* loadLyrics(text) with "plain text" checked, the media being loaded: a
\* fresh timeline Lyrics.fromText(text, media.duration) of n words, whose
\* constructor takes the same duration, rendered anew by the lyrics box
LoadLyrics ==
  \E n \in 0 .. MaxLen :
    /\ lyrics' = fromText(n, MediaDuration)
    /\ duration' = MediaDuration
    /\ view' = lyrics'
    /\ op' = [NoCall EXCEPT !.name = "loadLyrics", !.before = lyrics]
    /\ prev' = NoCall
    /\ UNCHANGED <<keyboardCursorIndex, media>>

\* 'durationchange loadedmetadata': self.lyrics.duration = media.duration
DurationChange ==
    /\ duration' = MediaDuration
    /\ op' = [NoCall EXCEPT !.name = "durationchange", !.before = lyrics]
    /\ prev' = NoCall
    /\ UNCHANGED <<lyrics, view>>
    /\ UNCHANGED <<keyboardCursorIndex, media>>

\* the arguments tried for getApproximateTime: every integer from -1 to one
\* past the end, a non-integer and a value that is not a Number
IndexInputs ==
  {Num(i) : i \in -1 .. MaxLen + 1} \cup {Rat(1, 2), AString}

\* lyrics.getIndexForTime(timestamp), as the 'timeupdate' handler calls it
CallGetIndexForTime ==
  \E t \in 0 .. MaxTime :
    LET r == getIndexForTime(lyrics, duration, Num(t))
    IN  /\ op' = [name |-> "getIndexForTime", index |-> Null, time |-> Num(t),
                  before |-> lyrics, emitted |-> <<>>, error |-> r.error,
                  result |-> r.value]
        /\ prev' = NoCall
        /\ UNCHANGED <<lyrics, duration, view>>
        /\ UNCHANGED <<keyboardCursorIndex, media>>

\* lyrics.getApproximateTime(index)
CallGetApproximateTime ==
  \E index \in IndexInputs :
    LET r == getApproximateTime(lyrics, duration, index)
    IN  /\ op' = [name |-> "getApproximateTime", index |-> index, time |-> Null,
                  before |-> lyrics, emitted |-> <<>>, error |-> r.error,
                  result |-> r.value]
        /\ prev' = NoCall
        /\ UNCHANGED <<lyrics, duration, view>>
        /\ UNCHANGED <<keyboardCursorIndex, media>>

Next ==
  \/ CallSetTimeOfWord
  \/ CallGetIndexForTime
  \/ CallGetApproximateTime
  \/ LoadLyrics
  \/ DurationChange

Spec == Init /\ [][Next]_vars

(* --------------------------- the time format -------------------------- *)
\* the times formatted: whole milliseconds below one hour, around every
\* change of the number of digits of a field, and the undefined time
\* of the status line when no media is loaded
TimerMinutes == {0, 1, 10, 59}
TimerSeconds == {0, 5, 10, 59}
TimerInputs ==
  {Rat((60 * m + s) * 1000 + ms, 1000) :
     m \in TimerMinutes, s \in TimerSeconds, ms \in 0 .. 999} \cup {Undefined}

InitTimer ==
  /\ lyrics = <<>>
  /\ duration = Undefined
  /\ view = lyrics
  /\ \E t \in TimerInputs, withHours \in BOOLEAN :
       op = [NoCall EXCEPT !.name = "time", !.time = t, !.index = withHours]
  /\ prev = NoCall
  /\ NoBox

\* Lyrics.toTimer(time, withHours)
CallToTimer ==
  /\ op.name = "time"
  /\ op' = [op EXCEPT !.name = "toTimer", !.result = toTimer(op.time, op.index)]
  /\ UNCHANGED <<lyrics, duration, view, prev>>
  /\ UNCHANGED <<keyboardCursorIndex, media>>

NextTimer == CallToTimer

SpecTimer == InitTimer /\ [][NextTimer]_vars

(* ------------------------------ plain text ---------------------------- *)
\* longest lyric text explored, in characters
MaxTextLen == 4

\* the pieces of the texts: a letter, a space, a line break, an
\* ideographic space (U+3000) and a literal "<br>"
TextPieces == {<<"a">>, <<" ">>, <<"\n">>, <<IdeographicSpace>>, LineBreakMarker}

\* the texts of up to MaxTextLen pieces
Texts ==
  {Concat(pieces) : pieces \in UNION {[1 .. k -> TextPieces] : k \in 0 .. MaxTextLen}}

\* the timeline of a sequence of words: index -> time, from index 0
TimesOfWords(words) == [i \in 0 .. Len(words) - 1 |-> words[i + 1].time]

InitText ==
  /\ lyrics = <<>>
  /\ duration = Undefined
  /\ view = lyrics
  /\ \E text \in Texts, d \in Durations :
       op = [NoCall EXCEPT !.name = "text", !.before = text, !.time = d]
  /\ prev = NoCall
  /\ NoBox

\* lyrics = Lyrics.fromText(text, duration), set as the timeline
CallFromText ==
  /\ op.name = "text"
  /\ LET words == fromTextWords(op.before, op.time)
     IN  /\ op' = [op EXCEPT !.name = "fromText", !.result = words]
         /\ lyrics' = TimesOfWords(words)
  /\ duration' = op.time
  /\ view' = lyrics'
  /\ UNCHANGED prev
  /\ UNCHANGED <<keyboardCursorIndex, media>>

NextText == CallFromText

SpecText == InitText /\ [][NextText]_vars

(* ------------------------------ LRC files ----------------------------- *)
\* most lines of an LRC file explored, and most words of a line
MaxLines == 2
MaxLineWords == 2

\* the word texts, by position in the file
Letters == <<"a", "c", "d", "e", "f", "g", "h", "i", "j", "k", "l", "m">>

\* A line is described by its head - no timestamp, "[T]" directly followed
\* by the text, or "[T] " - by its words, each with an inline tag "<t> "
\* before it or not, and by whether an inline tag closes the line.
LineShapes ==
  [head : {"none", "tight", "spaced"},
   tagged : UNION {[1 .. n -> BOOLEAN] : n \in 0 .. MaxLineWords},
   closed : BOOLEAN]

\* a file: its lines, and whether an "[offset:1000]" line precedes them
LRCFiles ==
  [lines : UNION {[1 .. n -> LineShapes] : n \in 0 .. MaxLines},
   offset : BOOLEAN]

\* the timestamps written in a file are all different: 10 i seconds for the
\* head of line i, 10 i + k for the tag of its word k, 10 i + 9 for the
\* closing tag
HeadTime(i) == 10 * i
TagTimeOf(i, k) == 10 * i + k
ClosingTime(i) == 10 * i + 9

\* the text of word k of line i
WordText(i, k) == <<Letters[(i - 1) * (MaxLineWords + 1) + k]>>

\* mm:ss.ff of a whole number of seconds below one minute
StampText(t) ==
  <<"0", "0", ":", DigitChar(t \div 10), DigitChar(t % 10), ".", "0", "0">>

\* texts joined by single spaces
RECURSIVE JoinWithSpaces(_)
JoinWithSpaces(texts) ==
  IF Len(texts) = 0 THEN <<>>
  ELSE IF Len(texts) = 1 THEN texts[1]
  ELSE texts[1] \o <<" ">> \o JoinWithSpaces(Tail(texts))

\* the text of line i of a file
LineText(shape, i) ==
  LET head == IF shape.head = "none" THEN <<>>
              ELSE <<"[">> \o StampText(HeadTime(i)) \o <<"]">>
                     \o (IF shape.head = "spaced" THEN <<" ">> ELSE <<>>)
      items == [k \in 1 .. Len(shape.tagged) |->
                  (IF shape.tagged[k]
                   THEN <<"<">> \o StampText(TagTimeOf(i, k)) \o <<">", " ">>
                   ELSE <<>>) \o WordText(i, k)]
      closing == IF shape.closed
                 THEN <<(<<"<">> \o StampText(ClosingTime(i)) \o <<">">>)>>
                 ELSE <<>>
  IN  head \o JoinWithSpaces(items \o closing)

\* the offset directive of the files that have one: one second
OffsetLine == OffsetTag \o <<"1", "0", "0", "0", "]", "\n">>

\* the text of a file: its lines, each ended by a line break
LRCText(file) ==
  (IF file.offset THEN OffsetLine ELSE <<>>)
    \o Concat([i \in 1 .. Len(file.lines) |->
                 LineText(file.lines[i], i) \o <<"\n">>])

InitLRC ==
  /\ lyrics = <<>>
  /\ duration = MediaDuration
  /\ view = lyrics
  /\ \E file \in LRCFiles :
       op = [NoCall EXCEPT !.name = "file", !.index = file, !.before = LRCText(file)]
  /\ prev = NoCall
  /\ NoBox

\* lyrics = Lyrics.fromLRC(text, duration), set as the timeline unless the
\* call throws
CallFromLRC ==
  /\ op.name = "file"
  /\ LET r == fromLRC(op.before)
     IN  /\ op' = [op EXCEPT !.name = "fromLRC", !.error = r.error,
                             !.result = r.words]
         /\ lyrics' = IF op'.error = "none" THEN TimesOfWords(op'.result) ELSE lyrics
  /\ view' = lyrics'
  /\ prev' = op
  /\ UNCHANGED duration
  /\ UNCHANGED <<keyboardCursorIndex, media>>

\* the export: lyrics.toELRC() of the timeline that was read
CallToELRC ==
  /\ op.name = "fromLRC" /\ op.error = "none"
  /\ op' = [NoCall EXCEPT !.name = "toELRC", !.index = op.index,
                          !.before = op.result, !.result = toELRC(op.result)]
  /\ prev' = op
  /\ UNCHANGED <<lyrics, duration, view>>
  /\ UNCHANGED <<keyboardCursorIndex, media>>

\* reading the exported text back: Lyrics.fromLRC(lyrics.toELRC(), duration)
CallFromELRC ==
  /\ op.name = "toELRC"
  /\ LET r == fromLRC(op.result)
     IN  /\ op' = [NoCall EXCEPT !.name = "fromELRC", !.index = op.index,
                                 !.before = op.result, !.error = r.error,
                                 !.result = r.words]
         /\ lyrics' = IF op'.error = "none" THEN TimesOfWords(op'.result) ELSE lyrics
  /\ view' = lyrics'
  /\ prev' = op
  /\ UNCHANGED duration
  /\ UNCHANGED <<keyboardCursorIndex, media>>

NextLRC ==
  \/ CallFromLRC
  \/ CallToELRC
  \/ CallFromELRC

SpecLRC == InitLRC /\ [][NextLRC]_vars

(* ------------------------------- export ------------------------------- *)
\* the words of a timeline being edited: word i is the i-th letter, with a
\* line-break marker or not, untimed or timed with a playback position
EditedWords ==
  UNION {[1 .. n -> [text : {"plain", "marked"}, time : Times]] : n \in 0 .. MaxLen}

WordsOf(edited) ==
  [i \in 1 .. Len(edited) |->
     [text |-> <<Letters[i]>> \o (IF edited[i].text = "marked"
                                  THEN LineBreakMarker ELSE <<>>),
      time |-> edited[i].time]]

\* the timelines setTimeOfWord keeps: explicit times in non-decreasing order
InitELRC ==
  /\ \E edited \in EditedWords :
       /\ op = [NoCall EXCEPT !.name = "timeline", !.before = WordsOf(edited)]
       /\ lyrics = TimesOfWords(WordsOf(edited))
  /\ \A i, j \in DOMAIN lyrics :
       (i < j /\ lyrics[i] # Null /\ lyrics[j] # Null) => Le(lyrics[i], lyrics[j])
  /\ duration = MediaDuration
  /\ view = lyrics
  /\ prev = NoCall
  /\ NoBox

\* the export: lyrics.toELRC()
CallExport ==
  /\ op.name = "timeline"
  /\ op' = [op EXCEPT !.name = "toELRC", !.result = toELRC(op.before)]
  /\ UNCHANGED <<lyrics, duration, view, prev>>
  /\ UNCHANGED <<keyboardCursorIndex, media>>

NextELRC == CallExport

SpecELRC == InitELRC /\ [][NextELRC]_vars

(* ------------------------------ playback ------------------------------ *)
\* a timeline has been loaded, one a file can hold: every word untimed or
\* timed with a time up to the length of the media (Lyrics.fromLRC of an
\* enhanced file and Lyrics.fromJSON take the times as they are written);
\* the media's metadata has arrived
InitPlayback ==
  /\ lyrics \in UNION {[0 .. n - 1 -> Times] : n \in 0 .. MaxLen}
  /\ duration = MediaDuration
  /\ view = lyrics
  /\ op = NoCall
  /\ prev = NoCall
  /\ NoBox

\* the 'timeupdate' handler of the lyrics box:
\* index = self.lyrics.getIndexForTime(e.target.currentTime)
TimeUpdate ==
  \E t \in 0 .. MaxTime :
    LET r == getIndexForTime(lyrics, duration, Num(t))
    IN  /\ op' = [name |-> "getIndexForTime", index |-> Null, time |-> Num(t),
                  before |-> lyrics, emitted |-> <<>>, error |-> r.error,
                  result |-> r.value]
        /\ prev' = op
        /\ UNCHANGED <<lyrics, duration, view>>
        /\ UNCHANGED <<keyboardCursorIndex, media>>

NextPlayback == TimeUpdate

SpecPlayback == InitPlayback /\ [][NextPlayback]_vars

(* ---------------------------- the lyrics box -------------------------- *)
\* this.lyrics of the application (null) and of the lyrics box (undefined)
\* before the first loadLyrics: no timeline.  It is written as a function
\* on an index no word has, so that it can be compared with a timeline.
NoLyrics == [i \in {-1} |-> Null]

\* variant: the index is stored as it comes
ClampIndexNot(index, length) == ToNumber(index)

\* Math.max(0, Math.min(index, this.lyrics.length-1)): NaN when the index
\* is not a number
ClampIndex(index, length) ==
  LET min == IF Le(index, Num(length - 1)) THEN ToNumber(index)
             ELSE Num(length - 1)
  IN  IF ToNumber(index).k = "nan" THEN NaN
      ELSE IF Ge(Num(0), min) THEN Num(0) ELSE min

\* LyricsBox.prototype.setKeyboardCursorIndex(index): the cursor it leaves.
\* Without an index the cursor is reset to 0; this.lyrics.length of a
\* missing timeline throws.
setKeyboardCursorIndex(cursor, words, index) ==
  IF LooseEq(index, Undefined) THEN [error |-> "none", cursor |-> Num(0)]
  ELSE IF words = NoLyrics THEN [error |-> "TypeError", cursor |-> cursor]
  ELSE IF LooseEq(ClampIndex(index, Length(words)), cursor)
       THEN [error |-> "none", cursor |-> cursor]
       ELSE [error |-> "none", cursor |-> ClampIndex(index, Length(words))]

\* lyrics.setTimeOfWord(index, time) as a handler calls it, index being a
\* JavaScript value
SetTimeFromBox(words, index, time) ==
  IF words = NoLyrics \/ ~IsInteger(index)
  THEN [error |-> "TypeError", words |-> words, emitted |-> <<>>]
  ELSE setTimeOfWord(words, index.n, time)

\* LyricsBox.prototype._assignTime(index): undefined unless the media is
\* playing and the index is below this.lyrics.length
assignTime(words, m, index) ==
  IF m.readyState = 0 \/ m.paused
  THEN [error |-> "none", assigned |-> FALSE, words |-> words, index |-> Null]
  ELSE IF words = NoLyrics
  THEN [error |-> "TypeError", assigned |-> FALSE, words |-> words, index |-> Null]
  ELSE IF Ge(index, Num(Length(words)))
  THEN [error |-> "none", assigned |-> FALSE, words |-> words, index |-> Null]
  ELSE LET r == SetTimeFromBox(words, index, m.currentTime)
       IN  [error |-> r.error, assigned |-> r.error = "none",
            words |-> r.words, index |-> index]

\* the rest of a handler after its call a, which passed index to
\* setTimeOfWord (null when it made no call): nothing when the call threw,
\* self.setKeyboardCursorIndex(target) when it went through.  What the
\* handler leaves: the error it threw, the timeline, the cursor, the index.
ThenMoveCursor(a, cursor, target, index) ==
  IF a.error # "none"
  THEN [error |-> a.error, words |-> a.words, cursor |-> cursor,
        index |-> index]
  ELSE LET c == setKeyboardCursorIndex(cursor, a.words, target)
       IN  [error |-> c.error, words |-> a.words, cursor |-> c.cursor,
            index |-> index]

\* new ELRCMaker(): this.lyrics = null, a lyrics box without lyrics
InitBox ==
  /\ lyrics = NoLyrics
  /\ duration = Undefined
  /\ view = lyrics
  /\ op = NoCall
  /\ prev = NoCall
  /\ NoBox

\* a key or mouse handler has run with outcome o
KeyHandled(name, o) ==
  /\ lyrics' = o.words
  /\ view' = lyrics'
  /\ keyboardCursorIndex' = o.cursor
  /\ op' = [NoCall EXCEPT !.name = name, !.index = o.index,
                          !.time = media.currentTime, !.error = o.error]
  /\ UNCHANGED <<duration, prev, media>>

\* loadLyrics(text) with "plain text" checked: a fresh timeline of n words
\* given to the lyrics box, whose setLyrics resets the cursor
BoxLoadLyrics ==
  \E n \in 0 .. MaxLen :
    /\ lyrics' = fromText(n, media.duration)
    /\ duration' = media.duration
    /\ view' = lyrics'
    /\ keyboardCursorIndex' =
         setKeyboardCursorIndex(keyboardCursorIndex, lyrics', Undefined).cursor
    /\ op' = [NoCall EXCEPT !.name = "loadLyrics"]
    /\ UNCHANGED <<prev, media>>

\* the media's metadata arrives; 'durationchange loadedmetadata':
\* self.lyrics.duration = media.duration, which throws without a timeline
MediaLoaded ==
  /\ media' = IF media.readyState = 0
              THEN [readyState |-> 1, paused |-> TRUE, currentTime |-> Num(0),
                    duration |-> MediaDuration]
              ELSE media
  /\ duration' = IF lyrics = NoLyrics THEN duration ELSE media'.duration
  /\ op' = [NoCall EXCEPT !.name = "durationchange",
                          !.error = IF lyrics = NoLyrics THEN "TypeError"
                                    ELSE "none"]
  /\ UNCHANGED <<lyrics, view, prev, keyboardCursorIndex>>

\* the user starts or pauses the playback of the loaded media
PlayPause ==
  /\ media.readyState # 0
  /\ media' = [media EXCEPT !.paused = ~@]
  /\ op' = [NoCall EXCEPT !.name = IF media.paused THEN "play" ELSE "pause"]
  /\ UNCHANGED <<lyrics, duration, view, prev, keyboardCursorIndex>>

\* the playback position changes; the 'timeupdate' handler highlights the
\* word at getIndexForTime(currentTime): self.lyrics of a missing timeline
\* and .dom of a missing word throw
MediaTimeUpdate ==
  \E t \in 0 .. MaxTime :
    /\ media.readyState # 0
    /\ media' = [media EXCEPT !.currentTime = Num(t)]
    /\ op' = [NoCall EXCEPT
                !.name = "timeupdate", !.time = Num(t),
                !.error =
                  IF lyrics = NoLyrics THEN "TypeError"
                  ELSE LET r == getIndexForTime(lyrics, duration, Num(t))
                       IN  IF r.error = "none" /\ ~LooseEq(r.value, Undefined)
                              /\ ~HasWord(lyrics, r.value)
                           THEN "TypeError" ELSE r.error]
    /\ UNCHANGED <<lyrics, duration, view, prev, keyboardCursorIndex>>

\* keydown, keyCode 32: if (self._assignTime(cursor)) the cursor moves on
KeySpace ==
  /\ KeyHandled("space",
       LET a == assignTime(lyrics, media, keyboardCursorIndex)
       IN  IF a.assigned
           THEN ThenMoveCursor(a, keyboardCursorIndex,
                               Add(keyboardCursorIndex, Num(1)), a.index)
           ELSE [error |-> a.error, words |-> a.words,
                 cursor |-> keyboardCursorIndex, index |-> a.index])

\* keydown, keyCode 46: the time of the word at the cursor is deleted, the
\* cursor moves back
KeyDel ==
  /\ KeyHandled("del",
       ThenMoveCursor(SetTimeFromBox(lyrics, keyboardCursorIndex, Null),
                      keyboardCursorIndex, Sub(keyboardCursorIndex, Num(1)),
                      keyboardCursorIndex))

\* keydown, keyCodes 39 (right) and 37 (left): the cursor moves by a step
KeyArrow ==
  \E key \in {"right", "left"} :
    KeyHandled(key,
      ThenMoveCursor([error |-> "none", words |-> lyrics], keyboardCursorIndex,
                     Add(keyboardCursorIndex,
                         IF key = "right" THEN Num(1) ELSE Num(-1)),
                     Null))

\* mousedown on one of the words rendered: the cursor goes to the next word
\* when the time was assigned, to the word itself when not
ClickWord ==
  /\ lyrics # NoLyrics
  /\ \E index \in DOMAIN lyrics :
       KeyHandled("click",
         LET a == assignTime(lyrics, media, Num(index))
         IN  ThenMoveCursor(a, keyboardCursorIndex,
                            IF a.assigned THEN Num(index + 1) ELSE Num(index),
                            a.index))

NextBox ==
  \/ BoxLoadLyrics
  \/ MediaLoaded
  \/ PlayPause
  \/ MediaTimeUpdate
  \/ KeySpace
  \/ KeyDel
  \/ KeyArrow
  \/ ClickWord

SpecBox == InitBox /\ [][NextBox]_vars

(* ------------------------------ properties ---------------------------- *)
Explicit(t) == t.k \notin {"null", "undefined"}
Untimed(t) == ~Explicit(t)

Monotone(words) ==
  \A i, j \in DOMAIN words :
    (i < j /\ Explicit(words[i]) /\ Explicit(words[j])) => Le(words[i], words[j])

\* two times are the same time: both untimed, or the same number
SameTime(a, b) == (Untimed(a) /\ Untimed(b)) \/ a = b

StrictlyIncreasing(words) ==
  \A i, j \in DOMAIN words : i < j => Lt(words[i], words[j])

FullyTimed(words) == \A i \in DOMAIN words : Explicit(words[i])

\* number of notifications for word k in a call's emissions
Count(emitted, k) == Cardinality({m \in 1 .. Len(emitted) : emitted[m][1] = k})

\* the last call was a setTimeOfWord that returned normally
IsSet == op.name = "setTimeOfWord" /\ op.error = "none"
\* the call before it was the same setTimeOfWord(index, time), index valid
IsRepeatedSet == IsSet /\ prev.name = "setTimeOfWord" /\ prev.error = "none"
IsIndexQuery == op.name = "getIndexForTime"
IsTimeQuery == op.name = "getApproximateTime"

\* C1: after every setTimeOfWord call of any call sequence, any two words
\* i < j that both have an explicit time satisfy time(i) <= time(j).
C1_Monotonicity == Monotone(lyrics)

\* word j of the timeline before the call conflicts with time t given to index
Conflicts(before, index, j, t) ==
  /\ Explicit(before[j])
  /\ \/ j > index /\ Le(before[j], t)
     \/ j < index /\ Ge(before[j], t)

\* C2: setTimeOfWord(index, t) with a real t leaves word index at t, every
\* later word that had an explicit time <= t and every earlier word that had
\* an explicit time >= t untimed, and every other word as it was.
C2_ClearsExactlyConflicts ==
  (IsSet /\ Explicit(op.time)) =>
    /\ lyrics[op.index.n] = op.time
    /\ \A j \in DOMAIN lyrics \ {op.index.n} :
         IF Conflicts(op.before, op.index.n, j, op.time)
         THEN Untimed(lyrics[j])
         ELSE lyrics[j] = op.before[j]

\* C3: a setTimeOfWord call emits one notification (k, newTime) for every
\* word k whose time the call changed and none for any other word, newTime
\* being the word's time after the call; the listener's copy of the times
\* agrees with the timeline after every call.
C3_NotificationsMatchChanges ==
  /\ DOMAIN view = DOMAIN lyrics
  /\ \A k \in DOMAIN lyrics : SameTime(view[k], lyrics[k])
  /\ IsSet =>
       /\ \A k \in DOMAIN lyrics :
            Count(op.emitted, k) = IF SameTime(op.before[k], lyrics[k]) THEN 0 ELSE 1
       /\ \A m \in 1 .. Len(op.emitted) :
            /\ op.emitted[m][1] \in DOMAIN lyrics
            /\ SameTime(op.emitted[m][2], lyrics[op.emitted[m][1]])

\* C3 witness: a call that changed its own word and cleared a word on each side
C3_Witness == IsSet /\ Len(op.emitted) = 3

\* C4 as stated: two successive calls setTimeOfWord(i, t) with the same valid
\* i and the same t emit exactly one notification for index i between them,
\* and the second call emits nothing and changes nothing.
C4_ExactlyOneOverTwoCalls ==
  IsRepeatedSet =>
    /\ Count(prev.emitted, op.index.n) + Count(op.emitted, op.index.n) = 1
    /\ op.emitted = <<>>
    /\ lyrics = op.before

\* C4 amended: two successive calls setTimeOfWord(i, t) with the same valid i
\* and the same t emit at most one notification for index i between them,
\* exactly one when word i's time differed from t before the first call and
\* none when it already was t; the second call emits nothing and changes
\* nothing.
C4_SecondCallIsNoOp ==
  IsRepeatedSet =>
    /\ Count(prev.emitted, op.index.n) =
         IF SameTime(prev.before[op.index.n], op.time) THEN 0 ELSE 1
    /\ op.emitted = <<>>
    /\ lyrics = op.before

\* C4 witness: the first of the two calls changed word i and cleared another
C4_Witness == IsRepeatedSet /\ Len(prev.emitted) >= 2

\* C5: setTimeOfWord(index, null) leaves every other word's time unchanged
\* and emits one notification for index if that word had an explicit time,
\* none otherwise.
C5_ClearTouchesOnlyIndex ==
  (IsSet /\ op.time = Null) =>
    /\ Untimed(lyrics[op.index.n])
    /\ \A k \in DOMAIN lyrics \ {op.index.n} : lyrics[k] = op.before[k]
    /\ op.emitted = IF Explicit(op.before[op.index.n])
                    THEN <<Notification(op.index.n, Null)>> ELSE <<>>

\* C5 witness: a timed word is cleared while timed words stand on both sides
C5_Witness ==
  /\ IsSet /\ op.time = Null
  /\ Explicit(op.before[op.index.n])
  /\ \E j \in DOMAIN lyrics : j < op.index.n /\ Truthy(lyrics[j])
  /\ \E j \in DOMAIN lyrics : j > op.index.n /\ Truthy(lyrics[j])

\* C6: setTimeOfWord with index < 0 or index >= length fails with an error,
\* changes no word's time and emits no notification.
C6_OutOfRangeFails ==
  (op.name = "setTimeOfWord" /\ ~HasWord(op.before, op.index)) =>
    /\ op.error # "none"
    /\ lyrics = op.before
    /\ op.emitted = <<>>

\* C6 witness: a call with index = length on a timeline with timed words
C6_Witness ==
  /\ op.name = "setTimeOfWord" /\ op.error = "TypeError"
  /\ op.index.n = Length(lyrics)
  /\ \E j \in DOMAIN lyrics : Truthy(lyrics[j])

\* C7 as stated: on a fully timed timeline with non-decreasing times (equal
\* neighbours allowed) and duration set, getIndexForTime(time(i)) = i for
\* every index i.
C7_InverseWithTies ==
  (IsIndexQuery /\ Truthy(duration) /\ FullyTimed(lyrics) /\ Monotone(lyrics)) =>
    \A i \in DOMAIN lyrics :
      lyrics[i] = op.time => (op.error = "none" /\ op.result = Num(i))

\* C7 amended: on a fully timed timeline with strictly increasing times and
\* duration set, getIndexForTime(time(i)) = i for every index i.
C7_InverseStrictlyIncreasing ==
  (IsIndexQuery /\ Truthy(duration) /\ FullyTimed(lyrics)
     /\ StrictlyIncreasing(lyrics)) =>
    \A i \in DOMAIN lyrics :
      lyrics[i] = op.time => (op.error = "none" /\ op.result = Num(i))

\* C7 witness: the time of the last of three strictly increasing words is
\* looked up
C7_Witness ==
  /\ IsIndexQuery /\ Truthy(duration) /\ Length(lyrics) = 3
  /\ FullyTimed(lyrics) /\ StrictlyIncreasing(lyrics)
  /\ op.time = lyrics[2] /\ op.result = Num(2)

\* the anchors as C8 words them: the nearest word with an explicit time
ExplicitBefore(words, index) == {j \in DOMAIN words : j < index /\ Explicit(words[j])}
ExplicitAfter(words, index) == {j \in DOMAIN words : j > index /\ Explicit(words[j])}
SetMax(S) == CHOOSE x \in S : \A y \in S : y <= x
SetMin(S) == CHOOSE x \in S : \A y \in S : x <= y

NearestExplicitEarlier(words, index) ==
  IF ExplicitBefore(words, index) = {} THEN <<0, Num(0)>>
  ELSE LET j == SetMax(ExplicitBefore(words, index)) IN <<j, words[j]>>

NearestExplicitLater(words, dur, index) ==
  IF ExplicitAfter(words, index) = {} THEN <<Length(words) - 1, dur>>
  ELSE LET j == SetMin(ExplicitAfter(words, index)) IN <<j, words[j]>>

LinearBetweenAnchors(words, dur, index) ==
  LET e == NearestExplicitEarlier(words, index)
      l == NearestExplicitLater(words, dur, index)
  IN  Add(e[2], Mul(Div(Num(index - e[1]), Num(l[1] - e[1])), Sub(l[2], e[2])))

\* C8: for an untimed word at a valid index, getApproximateTime(index) =
\* earlierTime + (index-earlierIndex)/(laterIndex-earlierIndex) *
\* (laterTime-earlierTime), the anchors being the nearest words with an
\* explicit time (0 included) before and after index, or (0, 0) and
\* (length-1, duration) where there is none.
C8_ApproximateTimeFormula ==
  (IsTimeQuery /\ HasWord(lyrics, op.index) /\ Untimed(lyrics[op.index.n])) =>
    /\ op.error = "none"
    /\ op.result = LinearBetweenAnchors(lyrics, duration, op.index.n)

C10_InvalidIndexFails ==
  (IsTimeQuery /\ ~HasWord(lyrics, op.index)) => op.error # "none"

\* C19: getApproximateTime(index) returns the word's own explicit timestamp
\* when the word at index has one; only an untimed word is approximated
\* from its neighbours.
C19_OwnTimestampReturned ==
  (IsTimeQuery /\ HasWord(lyrics, op.index) /\ Explicit(lyrics[op.index.n])) =>
    (op.error = "none" /\ op.result = lyrics[op.index.n])

\* the notifications a, then b, of a setTimeOfWord(index, ...) call are in
\* the documented order: the one for index first, then later words
\* ascending, then earlier words descending
InOrder(a, b, index) ==
  \/ a = index /\ b # index
  \/ a > index /\ b > index /\ a < b
  \/ a > index /\ b < index
  \/ a < index /\ b < index /\ a > b

\* C20: the change notifications of one setTimeOfWord call are all delivered
\* before the call returns (the listener's copy agrees with the timeline
\* when it returns), none is emitted by any other call, and they are emitted
\* in this order: the one for index first, then the cleared later words in
\* ascending index order, then the cleared earlier words in descending
\* index order.
C20_NotificationOrder ==
  /\ op.name # "setTimeOfWord" => op.emitted = <<>>
  /\ IsSet =>
       /\ \A m, k \in 1 .. Len(op.emitted) :
            m < k => InOrder(op.emitted[m][1], op.emitted[k][1], op.index.n)
       /\ \A i \in DOMAIN lyrics : SameTime(view[i], lyrics[i])

\* C20 witness: a call that changed index, then cleared a later word, then
\* an earlier one
C20_Witness ==
  /\ IsSet /\ Len(op.emitted) = 3
  /\ op.emitted[1][1] = op.index.n
  /\ op.emitted[2][1] > op.index.n
  /\ op.emitted[3][1] < op.index.n

\* the text is mm:ss.fff: two digits, a colon, two digits, a point and
\* three digits
IsTimerText(text) ==
  /\ Len(text) = 9
  /\ text[3] = ":" /\ text[6] = "."
  /\ \A i \in {1, 2, 4, 5, 7, 8, 9} : IsDigit(text[i])

\* minutes * 60 + seconds.fff of a text m:s.f
ReadTimer(text) ==
  LET c == CHOOSE i \in 1 .. Len(text) :
             text[i] = ":" /\ \A j \in 1 .. i - 1 : text[j] # ":"
  IN  Add(Mul(parseIntOfText(SubSeq(text, 1, c - 1)), Num(60)),
          parseFloat(SubSeq(text, c + 1, Len(text))))

IsFormatted == op.name = "toTimer" /\ op.index = FALSE /\ op.time.k = "num"

\* C15: Lyrics.toTimer(time) without hours, for every time that is a whole
\* number of milliseconds in [0, 3600 s), returns mm:ss.fff with exactly two
\* digits of minutes, two of seconds and three of milliseconds, and reading
\* it back as minutes*60 + seconds.fff gives the same time.
C15_TimerRoundTrip ==
  IsFormatted => (IsTimerText(op.result) /\ ReadTimer(op.result) = op.time)

\* the maximal runs of characters of a text that are not in seps
RECURSIVE Runs(_, _)
Runs(s, seps) ==
  IF s = <<>> THEN <<>>
  ELSE IF Head(s) \in seps THEN Runs(Tail(s), seps)
  ELSE LET run == PrefixWithout(s, seps)
       IN  <<run>> \o Runs(SubSeq(s, Len(run) + 1, Len(s)), seps)

\* the white-space separated tokens of a text
Tokens(text) == Runs(text, WhiteSpace)

\* the tokens of a text when ideographic spaces are deleted instead of
\* separating: the runs between spaces and line breaks that have another
\* character
JoinedTokens(text) ==
  SelectSeq([i \in 1 .. Len(Runs(text, {" ", "\n"})) |->
               DeleteIdeographic(Runs(text, {" ", "\n"})[i])],
            LAMBDA t : t # <<>>)

\* a text without the line-break markers in it
RECURSIVE WithoutMarker(_)
WithoutMarker(s) ==
  IF s = <<>> THEN <<>>
  ELSE IF StartsWith(s, LineBreakMarker)
  THEN WithoutMarker(SubSeq(s, Len(LineBreakMarker) + 1, Len(s)))
  ELSE <<Head(s)>> \o WithoutMarker(Tail(s))

\* the text has no literal "<br>"
NoLiteralMarker(text) == \A i \in 1 .. Len(text) : text[i] # "<"

IsFromText == op.name = "fromText"

\* what C16 says of every word: text not empty, not a bare line-break
\* marker, time = duration
WordsWellFormed ==
  /\ \A i \in 1 .. Len(op.result) :
       /\ op.result[i].text # <<>>
       /\ op.result[i].text # LineBreakMarker
       /\ op.result[i].time = op.time
  /\ Monotone(lyrics)

FileOffset(file) == IF file.offset THEN 1 ELSE 0

IsParsed == op.name = "fromLRC"

\* the time a reader of the format expects of word k of line i: that of the
\* head of its line ("head"), of the tag before it ("tag"), or of whichever
\* of them is written before it ("written")
ExpectedTime(i, k, timing) ==
  IF timing = "head" \/ (timing = "written" /\ k = 1) THEN HeadTime(i)
  ELSE TagTimeOf(i, k)

\* the words a reader of the format expects of a file, the offset added to
\* every time
ExpectedWords(file, timing) ==
  Concat([i \in 1 .. Len(file.lines) |->
            [k \in 1 .. Len(file.lines[i].tagged) |->
               [text |-> WordText(i, k),
                time |-> Num(ExpectedTime(i, k, timing) + FileOffset(file))]]])

\* the same words in the same order: texts equal but for the line-break
\* markers, times equal
SameWords(words, expected) ==
  /\ Len(words) = Len(expected)
  /\ \A j \in 1 .. Len(words) :
       /\ WithoutMarker(words[j].text) = WithoutMarker(expected[j].text)
       /\ words[j].time = expected[j].time

\* a file of the classic format: every line is [T_i] w_1 ... w_k
IsClassicFile(file) ==
  /\ Len(file.lines) >= 1
  /\ \A i \in 1 .. Len(file.lines) :
       LET line == file.lines[i]
       IN  /\ line.head = "tight" /\ ~line.closed
           /\ Len(line.tagged) >= 1
           /\ \A k \in 1 .. Len(line.tagged) : ~line.tagged[k]

\* C12: fromLRC on LRC text that is not enhanced assigns every word of a
\* line that line's own leading timestamp (plus the offset): for lines
\* L_i = [T_i] w_1 ... w_k each w_k gets the time T_i, whatever k and the
\* timestamps of the other lines are.
C12_WordsGetLineTime ==
  (IsParsed /\ IsClassicFile(op.index)) =>
    /\ op.error = "none"
    /\ SameWords(op.result,
                 ExpectedWords(op.index, "head"))

\* a file of enhanced lines [T]w0 <t1> w1 ... <tn> wn, n >= 1, written with
\* the given head
IsEnhancedFile(file, heads) ==
  /\ Len(file.lines) >= 1
  /\ \A i \in 1 .. Len(file.lines) :
       LET line == file.lines[i]
       IN  /\ line.head \in heads /\ ~line.closed
           /\ Len(line.tagged) >= 2
           /\ \A k \in 1 .. Len(line.tagged) : line.tagged[k] <=> k >= 2

\* C13: fromLRC on an enhanced line [T]w0 <t1> w1 ... <tn> wn (no space
\* required after the bracket) yields exactly the n + 1 words in order, w0
\* at T and each w_k at t_k: no word is lost and no tag text becomes a word.
C13_EnhancedLineWords ==
  (IsParsed /\ IsEnhancedFile(op.index, {"tight", "spaced"})) =>
    /\ op.error = "none"
    /\ SameWords(op.result, ExpectedWords(op.index, "written"))

\* a file of enhanced lines [T]<t1> w1 ... <tn> wn <tc>, n >= 1
IsClosedTaggedFile(file) ==
  /\ Len(file.lines) >= 1
  /\ \A i \in 1 .. Len(file.lines) :
       LET line == file.lines[i]
       IN  /\ line.head = "tight" /\ line.closed
           /\ Len(line.tagged) >= 1
           /\ \A k \in 1 .. Len(line.tagged) : line.tagged[k]

\* C14: fromLRC on an enhanced line that starts with an inline tag and ends
\* with a closing tag, [T]<t1> w1 ... <tn> wn <tc>, yields exactly the n
\* words w_k at t_k: the closing tag is consumed and no word is duplicated.
C14_TaggedLineWords ==
  (IsParsed /\ IsClosedTaggedFile(op.index)) =>
    /\ op.error = "none"
    /\ SameWords(op.result, ExpectedWords(op.index, "tag"))

\* the text of a file without its line j
LRCTextWithout(file, j) ==
  (IF file.offset THEN OffsetLine ELSE <<>>)
    \o Concat([i \in 1 .. Len(file.lines) |->
                 IF i = j THEN <<>> ELSE LineText(file.lines[i], i) \o <<"\n">>])

\* C18: fromLRC never fails: a line without the timestamp-prefixed shape
\* contributes no words and raises no error, and the words and timestamps
\* of the other lines are the same as if that line were absent.
C18_NeverFails ==
  IsParsed =>
    /\ op.error = "none"
    /\ \A j \in 1 .. Len(op.index.lines) :
         op.index.lines[j].head = "none" =>
           LET without == fromLRC(LRCTextWithout(op.index, j))
           IN  without.error = "none" /\ SameWords(op.result, without.words)

\* C11: for any timeline produced by fromLRC, fromLRC(toELRC(timeline),
\* duration) yields the same number of words, with the same texts in order
\* and the same explicit timestamp on each word.
C11_RoundTrip ==
  op.name = "fromELRC" =>
    /\ op.error = "none"
    /\ Len(op.result) = Len(prev.before)
    /\ \A j \in 1 .. Len(op.result) :
         /\ op.result[j].text = prev.before[j].text
         /\ op.result[j].time = prev.before[j].time

\* word i starts a display line: it is the first word, or the word before
\* it carries a line-break marker and has an explicit time
StartsLine(words, i) ==
  i = 1 \/ (Includes(words[i - 1].text, LineBreakMarker) /\ Explicit(words[i - 1].time))

\* the tag C17 puts before word i: a bracketed timestamp when it starts a
\* line (00:00.000 when it is untimed), an inline timestamp when it does not
\* and has an explicit time, none otherwise
TagBefore(words, i) ==
  IF StartsLine(words, i)
  THEN <<"\n", "[">>
         \o toTimer(IF Explicit(words[i].time) THEN words[i].time ELSE Num(0), FALSE)
         \o <<"]">>
  ELSE IF Explicit(words[i].time)
  THEN <<" ", "<">> \o toTimer(words[i].time, FALSE) \o <<">">>
  ELSE <<>>

\* C17: in the output of toELRC every word is preceded by a bracketed
\* timestamp exactly when it starts a display line, by an inline timestamp
\* exactly when it does not start a line and has an explicit time (time 0
\* included), and by no tag when it is an untimed interior word; the tag
\* carries the word's own time.
C17_TagBeforeEveryWord ==
  op.name = "toELRC" =>
    op.result = Concat([i \in 1 .. Len(op.before) |->
                          TagBefore(op.before, i) \o <<" ">>
                            \o WithoutMarker(op.before[i].text)])

\* C21: on a timeline of a single word, getApproximateTime(0) returns the
\* earlier anchor time 0, a defined number, and never the NaN of 0/0.
C21_SingleWordTime ==
  (IsTimeQuery /\ Length(lyrics) = 1 /\ op.index = Num(0)) =>
    /\ op.error = "none"
    /\ op.result = Num(0)

\* every explicit time of the timeline lies in (0, dur]
TimesWithin(words, dur) ==
  \A i \in DOMAIN words : Explicit(words[i]) => (Lt(Num(0), words[i]) /\ Le(words[i], dur))

\* the timelines C22 and C23 speak of: duration set, explicit times
\* non-decreasing
IsOrderedTimeline == Lt(Num(0), duration) /\ Monotone(lyrics)

\* C22: for a non-empty timeline with duration set, explicit times
\* non-decreasing and within (0, duration], and a playback position
\* 0 <= timestamp <= duration, getIndexForTime(timestamp) returns an integer
\* index in [0, length-1].
C22_IndexInRange ==
  (/\ IsIndexQuery /\ Length(lyrics) >= 1
   /\ IsOrderedTimeline /\ TimesWithin(lyrics, duration)
   /\ Le(Num(0), op.time) /\ Le(op.time, duration)) =>
    /\ op.error = "none"
    /\ HasWord(lyrics, op.result)

\* C23: for a fixed timeline with duration set and non-decreasing explicit
\* times, getIndexForTime is non-decreasing in its argument: of two calls
\* with 0 <= timestamp1 <= timestamp2 the second returns an index that is
\* not smaller.
C23_IndexMonotone ==
  (/\ IsIndexQuery /\ prev.name = "getIndexForTime"
   /\ Length(lyrics) >= 1 /\ IsOrderedTimeline
   /\ Le(Num(0), prev.time) /\ Le(prev.time, op.time)) =>
    /\ op.error = "none" /\ prev.error = "none"
    /\ Le(prev.result, op.result)

\* the handlers of the keys and of the mouse
IsBoxEvent == op.name \in {"space", "del", "left", "right", "click"}

\* C24: while a non-empty timeline is loaded, after any sequence of Space,
\* Del, left-arrow, right-arrow and word-click events the keyboard cursor
\* index is in [0, length-1] and every setTimeOfWord call these handlers
\* make uses an index in [0, length); loading a timeline resets the cursor
\* to 0.
C24_CursorInRange ==
  /\ (lyrics # NoLyrics /\ Length(lyrics) >= 1) =>
       /\ HasWord(lyrics, keyboardCursorIndex)
       /\ (IsBoxEvent /\ op.index # Null) => HasWord(lyrics, op.index)
  /\ op.name = "loadLyrics" => keyboardCursorIndex = Num(0)

\* C24 witness: Space has timed the last word of a timeline of several
\* words, and the cursor stays on it
C24_Witness ==
  /\ lyrics # NoLyrics /\ Length(lyrics) >= 2
  /\ op.name = "space" /\ op.error = "none"
  /\ op.index = Num(Length(lyrics) - 1)
  /\ keyboardCursorIndex = Num(Length(lyrics) - 1)


\* C25: whatever the order of the UI events relative to loadLyrics, a
\* handler (timeupdate, durationchange/loadedmetadata, Space, Del) that runs
\* while no timeline is loaded ends without an error and leaves the box as
\* it was: it never dereferences the missing timeline.
C25_NoTimelineNoError ==
  (/\ lyrics = NoLyrics
   /\ op.name \in {"timeupdate", "durationchange", "space", "del"})
    => /\ op.error = "none"
       /\ keyboardCursorIndex = Undefined

=============================================================================
